---- MODULE Spec2Model ----
(***************************************************************************)
(* Model of galaxy_cluster_mass_estimation.py: a top-to-bottom script that  *)
(* loads a catalogue, removes duplicate objects, clips the sample to a      *)
(* 3-sigma velocity window, and estimates the dynamical and the luminous    *)
(* mass of the cluster.                                                     *)
(*                                                                          *)
(* Numbers.  TLC has 32-bit integers only, so the script's float64 values   *)
(* are held in three exact or explicitly rounded forms:                     *)
(*   - rationals  [k, n, d]  (k = "num": n/d in lowest terms, d > 0;        *)
(*     k = "nan", "inf", "ninf": the IEEE specials) for the statistics;     *)
(*   - a standard deviation is held by its radicand, a rational r meaning   *)
(*     sqrt(r), and a window bound as  centre + s*sqrt(r), so that every    *)
(*     comparison of lines 44-45 is decided exactly;                        *)
(*   - decimal floats [k, m, e] (m * 10^e, m = 0 or 1000 <= m <= 9999,      *)
(*     products and quotients truncated to four digits) for the masses,     *)
(*     whose magnitudes span fifty orders.                                  *)
(* Rounding of float64 itself (53 bits) is not modelled.                    *)
(*                                                                          *)
(* The plotting statements (sections 4 and 5, lines 92-101) and the prints  *)
(* read values and assign nothing: they are not steps of the model.  pandas,*)
(* numpy and astropy are modelled by their documented results (NaN for the  *)
(* statistics of too small a sample, comparisons with NaN False, float64    *)
(* division by zero giving inf or nan).                                     *)
(*                                                                          *)
(* Units.  Redshifts are held in units of 0.01, velocities in units of      *)
(* 1000 km/s, sky coordinates in units of 1e-4 degree, magnitudes in units  *)
(* of 0.01 mag.                                                             *)
(***************************************************************************)
EXTENDS Integers, Sequences, FiniteSets, TLC

VARIABLES
    pc,                   \* the section of the script that runs next
    raw,                  \* the rows read_csv returns (line 19)
    data,                 \* the working table (lines 20, 27)
    mean_z,               \* line 29
    mean_velocity,        \* line 30
    velocity_dispersion,  \* line 31 (radicand)
    lower_bound,          \* line 41
    upper_bound,          \* line 42
    cluster_members,      \* lines 44-45
    angular_sep,          \* column of cluster_members, lines 87-89
    z_cosmo,              \* the redshift handed to the cosmology (lines 112, 125)
    kpc_per_arcmin,       \* what kpc_proper_per_arcmin returns (line 112)
    angular_scale,        \* line 112 (.value)
    proj_sep_mpc,         \* column of cluster_members, line 113
    cluster_radius,       \* line 116
    velocity_disp,        \* line 120 (radicand)
    dynamical_mass,       \* line 121
    dynamical_mass_unit,  \* the unit the value of line 121 is expressed in
    lum_dist,             \* line 125
    L_g,                  \* column of cluster_members, line 127
    luminous_mass,        \* line 128
    dynamical_mass_ratio  \* line 131

vars == <<pc, raw, data, mean_z, mean_velocity, velocity_dispersion, lower_bound,
          upper_bound, cluster_members, angular_sep, z_cosmo, kpc_per_arcmin,
          angular_scale, proj_sep_mpc, cluster_radius, velocity_disp, dynamical_mass,
          dynamical_mass_unit, lum_dist, L_g, luminous_mass, dynamical_mass_ratio>>

(***************************************************************************)
(* Exact rationals with the IEEE specials.                                  *)
(***************************************************************************)
Abs(x) == IF x < 0 THEN -x ELSE x

RECURSIVE GCD(_, _)
GCD(a, b) == IF b = 0 THEN a ELSE GCD(b, a % b)

NaN == [k |-> "nan", n |-> 0, d |-> 1]

PosInf == [k |-> "inf", n |-> 0, d |-> 1]

NegInf == [k |-> "ninf", n |-> 0, d |-> 1]

\* A name that no statement has assigned yet.
Unset == [k |-> "unset", n |-> 0, d |-> 1]

\* n/d in lowest terms, d # 0.
Q(n, d) ==
    LET g == GCD(Abs(n), Abs(d))
        s == IF d < 0 THEN -1 ELSE 1
    IN [k |-> "num", n |-> (s * n) \div g, d |-> (s * d) \div g]

IsNum(x) == x.k = "num"

RMul(a, b) ==
    IF IsNum(a) /\ IsNum(b) THEN Q(a.n * b.n, a.d * b.d) ELSE NaN

RDivInt(a, i) ==
    IF IsNum(a) THEN Q(a.n, a.d * i) ELSE NaN

RAdd(a, b) ==
    IF IsNum(a) /\ IsNum(b) THEN Q(a.n * b.d + b.n * a.d, a.d * b.d) ELSE NaN

RSub(a, b) == RAdd(a, RMul(Q(-1, 1), b))

RLe(a, b) == IsNum(a) /\ IsNum(b) /\ a.n * b.d <= b.n * a.d

RECURSIVE SumSeq(_)
SumSeq(s) == IF s = <<>> THEN 0 ELSE Head(s) + SumSeq(Tail(s))

Column(frame, f) == [i \in 1..Len(frame) |-> frame[i][f]]

(***************************************************************************)
(* pandas: the operations the script applies to its table.  A table is a    *)
(* sequence of rows in load order, a row a record of its columns.           *)
(***************************************************************************)
\* DataFrame.drop_duplicates(subset='objid', keep='last'): the bug of
\* keeping the wrong occurrence.
DropDuplicates_keep_last(frame) ==
    LET Kept(i) == \A j \in (i + 1)..Len(frame) : frame[j].objid # frame[i].objid
        RECURSIVE Build(_)
        Build(i) == IF i > Len(frame) THEN <<>>
                    ELSE IF Kept(i) THEN <<frame[i]>> \o Build(i + 1)
                    ELSE Build(i + 1)
    IN Build(1)

\* DataFrame.drop_duplicates(subset='objid', keep='first'): a row is dropped
\* when an earlier row carries its objid; the rows kept stay in order.
DropDuplicates(frame) ==
    LET Kept(i) == \A j \in 1..(i - 1) : frame[j].objid # frame[i].objid
        RECURSIVE Build(_)
        Build(i) == IF i > Len(frame) THEN <<>>
                    ELSE IF Kept(i) THEN <<frame[i]>> \o Build(i + 1)
                    ELSE Build(i + 1)
    IN Build(1)

\* Series.mean(): the sum over the count, NaN for an empty series.
SeriesMean(s) ==
    IF Len(s) = 0 THEN NaN ELSE Q(SumSeq(s), Len(s))

\* Series.std(ddof=0): the population deviation (the bug of the wrong
\* denominator).
SeriesStd_ddof0(s) ==
    LET N == Len(s)
        S == SumSeq(s)
        sqr == SumSeq([i \in 1..N |-> (N * s[i] - S) * (N * s[i] - S)])
    IN IF N <= 0 THEN NaN ELSE Q(sqr, N * N * N)

\* Series.std(): ddof = 1.  pandas' nanvar: avg = sum / count,
\* sqr = sum((avg - values)^2), var = sqr / (count - ddof), NaN when
\* count <= ddof; std = sqrt(var).  The value returned here is the radicand
\* var: (v - S/N)^2 = (N*v - S)^2 / N^2.
SeriesStd(s) ==
    LET N == Len(s)
        S == SumSeq(s)
        sqr == SumSeq([i \in 1..N |-> (N * s[i] - S) * (N * s[i] - S)])
    IN IF N <= 1 THEN NaN ELSE Q(sqr, N * N * (N - 1))

\* centre + s * width * sqrt(radicand): the value of
\* mean_velocity -/+ 3 * velocity_dispersion, NaN when either operand is.
Surd(centre, s, width, radicand) ==
    IF IsNum(centre) /\ IsNum(radicand)
    THEN LET r == RMul(Q(width * width, 1), radicand)
         IN [k |-> "num", cn |-> centre.n, cd |-> centre.d, s |-> s,
             rn |-> r.n, rd |-> r.d]
    ELSE [k |-> "nan", cn |-> 0, cd |-> 1, s |-> s, rn |-> 0, rd |-> 1]

UnsetBound == [k |-> "unset", cn |-> 0, cd |-> 1, s |-> 1, rn |-> 0, rd |-> 1]

\* v >= b for an integer v and a bound b = cn/cd + s*sqrt(rn/rd); False when
\* b is NaN.  With x = v - cn/cd = xn/cd:  x >= sqrt(r) iff x >= 0 and
\* x^2 >= r;  x >= -sqrt(r) iff x >= 0 or x^2 <= r.
GreaterEqual(v, b) ==
    LET xn == v * b.cd - b.cn
        x2 == xn * xn * b.rd
        r2 == b.rn * b.cd * b.cd
    IN /\ b.k = "num"
       /\ IF b.s > 0 THEN xn >= 0 /\ x2 >= r2 ELSE xn >= 0 \/ x2 <= r2

\* v <= b, likewise.
LessEqual(v, b) ==
    LET xn == v * b.cd - b.cn
        x2 == xn * xn * b.rd
        r2 == b.rn * b.cd * b.cd
    IN /\ b.k = "num"
       /\ IF b.s > 0 THEN xn <= 0 \/ x2 <= r2 ELSE xn <= 0 /\ x2 >= r2

(***************************************************************************)
(* Sections 2 and 3 of the script.                                          *)
(***************************************************************************)
\* Speed of light, 3e5 km/s: 3 velocity units (1000 km/s) per redshift
\* unit (0.01).
c == 3

\* data['velocity'] = data['specz'] * c
WithVelocity(frame) ==
    [i \in 1..Len(frame) |->
        [objid |-> frame[i].objid, ra |-> frame[i].ra, dec |-> frame[i].dec,
         specz |-> frame[i].specz, gmag |-> frame[i].gmag,
         velocity |-> frame[i].specz * c]]

\* The window of a clip that forgot its width: mean -/+ 1 * dispersion.
SigmaWindow_one_sigma(centre, s, dispersion) == Surd(centre, s, 1, dispersion)

\* mean_velocity -/+ 3 * velocity_dispersion
SigmaWindow(centre, s, dispersion) == Surd(centre, s, 3, dispersion)

\* The rows of frame at the positions where the global table data passes
\* the window: the bug of a mask taken from another table.
ClusterMembers_mask_of_data(frame, lo, hi) ==
    LET Pass(i) == /\ i <= Len(data)
                   /\ GreaterEqual(data[i].velocity, lo)
                   /\ LessEqual(data[i].velocity, hi)
        RECURSIVE Build(_)
        Build(i) == IF i > Len(frame) THEN <<>>
                    ELSE IF Pass(i) THEN <<frame[i]>> \o Build(i + 1)
                    ELSE Build(i + 1)
    IN Build(1)

\* frame[(frame['velocity'] > lo) & (frame['velocity'] < hi)]: the bug of
\* a window that is open at its ends.
ClusterMembers_exclusive(frame, lo, hi) ==
    SelectSeq(frame, LAMBDA r : /\ lo.k = "num" /\ hi.k = "num"
                                /\ ~LessEqual(r.velocity, lo)
                                /\ ~GreaterEqual(r.velocity, hi))

\* The members in reverse order: the bug of a filter that does not keep
\* the load order.
ClusterMembers_reversed(frame, lo, hi) ==
    LET m == SelectSeq(frame, LAMBDA r : GreaterEqual(r.velocity, lo) /\ LessEqual(r.velocity, hi))
    IN [i \in 1..Len(m) |-> m[Len(m) + 1 - i]]

\* frame[(frame['velocity'] >= lo) & (frame['velocity'] <= hi)]
ClusterMembers(frame, lo, hi) ==
    SelectSeq(frame, LAMBDA r : GreaterEqual(r.velocity, lo) /\ LessEqual(r.velocity, hi))

(***************************************************************************)
(* Decimal floats for the mass estimates: m * 10^e, non-negative.           *)
(***************************************************************************)
DNaN == [k |-> "nan", m |-> 0, e |-> 0]

DInf == [k |-> "inf", m |-> 0, e |-> 0]

DZero == [k |-> "num", m |-> 0, e |-> 0]

DUnset == [k |-> "unset", m |-> 0, e |-> 0]

\* A statement of the script that raised: the value is never produced.
DRaise == [k |-> "raise", m |-> 0, e |-> 0]

RECURSIVE DNorm(_, _)
DNorm(m, e) ==
    IF m = 0 THEN DZero
    ELSE IF m >= 10000 THEN DNorm(m \div 10, e + 1)
    ELSE IF m < 1000 THEN DNorm(m * 10, e - 1)
    ELSE [k |-> "num", m |-> m, e |-> e]

DIsZero(a) == a.k = "num" /\ a.m = 0

\* a * b in IEEE arithmetic.
DMul(a, b) ==
    IF a.k = "nan" \/ b.k = "nan" THEN DNaN
    ELSE IF a.k = "inf" \/ b.k = "inf"
         THEN (IF DIsZero(a) \/ DIsZero(b) THEN DNaN ELSE DInf)
    ELSE DNorm(a.m * b.m, a.e + b.e)

RECURSIVE Pow10Int(_)
Pow10Int(i) == IF i = 0 THEN 1 ELSE 10 * Pow10Int(i - 1)

\* a + b in IEEE arithmetic; the smaller operand is lost below the last
\* digit kept.
DAdd(a, b) ==
    IF a.k = "nan" \/ b.k = "nan" THEN DNaN
    ELSE IF a.k = "inf" \/ b.k = "inf" THEN DInf
    ELSE IF DIsZero(a) THEN b
    ELSE IF DIsZero(b) THEN a
    ELSE LET hi == IF a.e >= b.e THEN a ELSE b
             lo == IF a.e >= b.e THEN b ELSE a
             sh == hi.e - lo.e
         IN IF sh > 4 THEN hi ELSE DNorm(hi.m + lo.m \div Pow10Int(sh), hi.e)

\* Python's float / float: ZeroDivisionError on a zero divisor.
TrueDivide_python_float(a, b) ==
    IF DIsZero(b) THEN DRaise
    ELSE IF a.k = "nan" \/ b.k = "nan" THEN DNaN
    ELSE IF a.k = "inf" THEN (IF b.k = "inf" THEN DNaN ELSE DInf)
    ELSE IF b.k = "inf" THEN DZero
    ELSE DNorm((a.m * 10000) \div b.m, a.e - b.e - 4)

\* numpy.float64 / numpy.float64: a zero divisor gives inf, or nan for 0/0
\* and nan/0, with a RuntimeWarning and no exception.
TrueDivide(a, b) ==
    IF a.k = "nan" \/ b.k = "nan" THEN DNaN
    ELSE IF a.k = "inf" THEN (IF b.k = "inf" THEN DNaN ELSE DInf)
    ELSE IF b.k = "inf" THEN DZero
    ELSE IF DIsZero(b) THEN (IF DIsZero(a) THEN DNaN ELSE DInf)
    ELSE DNorm((a.m * 10000) \div b.m, a.e - b.e - 4)

\* The float of an integer, and of a non-negative rational.
DInt(i) == DNorm(i, 0)

RatToDec(q) ==
    IF q.k = "num" THEN TrueDivide(DInt(q.n), DInt(q.d))
    ELSE IF q.k = "inf" THEN DInf
    ELSE DNaN

\* a <= b for finite decimal floats.
DLe(a, b) ==
    \/ DIsZero(a)
    \/ ~DIsZero(b) /\ (a.e < b.e \/ (a.e = b.e /\ a.m <= b.m))

(***************************************************************************)
(* Section 6: angular separation from the cluster centre.                   *)
(***************************************************************************)
center_ra == 2581294

center_dec == 640926

\* numpy.sqrt on an integer: the root by bisection, exact on squares (the
\* positions of the model keep the sum of squares a square).
RECURSIVE SqrtBetween(_, _, _)
SqrtBetween(x, lo, hi) ==
    IF lo >= hi THEN lo
    ELSE LET mid == (lo + hi + 1) \div 2
         IN IF mid * mid <= x THEN SqrtBetween(x, mid, hi)
            ELSE SqrtBetween(x, lo, mid - 1)

Sqrt(x) == SqrtBetween(x, 0, 40000)

\* sqrt((ra - center_ra)**2 + (dec - center_dec)**2), in degrees.
AngularSep(frame) ==
    [i \in 1..Len(frame) |->
        Q(Sqrt((frame[i].ra - center_ra) * (frame[i].ra - center_ra)
               + (frame[i].dec - center_dec) * (frame[i].dec - center_dec)),
          10000)]

(***************************************************************************)
(* Section 7: the cosmology, the radius and the two masses.                 *)
(***************************************************************************)
\* FlatLambdaCDM(H0=70, Om0=0.3).kpc_proper_per_arcmin(z), in kpc/arcmin.
\* astropy is not part of the script: what it returns is an input, zero at
\* z = 0, NaN at NaN and positive for z > 0.
KpcProperPerArcmin(z) ==
    IF z.k # "num" THEN {NaN}
    ELSE IF z.n = 0 THEN {Q(0, 1)}
    ELSE {Q(30, 1), Q(60, 1)}

\* FlatLambdaCDM(H0=70, Om0=0.3).luminosity_distance(z).value, in Mpc:
\* likewise an input.
LuminosityDistance(z) ==
    IF z.k # "num" THEN {DNaN}
    ELSE IF z.n = 0 THEN {DZero}
    ELSE {DInt(100), DInt(1000)}

\* Quantity.to('Mpc/deg') of a quantity in kpc/arcmin: 1e-3 Mpc per kpc,
\* 60 arcmin per degree.
ToMpcPerDeg(x) == RMul(x, Q(60, 1000))

\* cosmo.kpc_proper_per_arcmin(mean_z).to('Mpc/deg') / 60, .value
AngularScale(kpc) == RDivInt(ToMpcPerDeg(kpc), 60)

\* cluster_members['angular_sep'] * angular_scale.value
ProjSepMpc(seps, scale) == [i \in 1..Len(seps) |-> RMul(seps[i], scale)]

RECURSIVE InsertSorted(_, _)
InsertSorted(x, s) ==
    IF s = <<>> THEN <<x>>
    ELSE IF RLe(x, Head(s)) THEN <<x>> \o s
    ELSE <<Head(s)>> \o InsertSorted(x, Tail(s))

RECURSIVE SortValues(_)
SortValues(s) == IF s = <<>> THEN <<>> ELSE InsertSorted(Head(s), SortValues(Tail(s)))

\* Series.quantile(qn/qd), interpolation 'linear': NaN for an empty series;
\* else with h = (n-1)*q over the sorted values (0-based),
\* v[floor h] + (h - floor h) * (v[floor h + 1] - v[floor h]).
Quantile(s, qn, qd) ==
    LET n == Len(s)
        v == SortValues(s)
        i == ((n - 1) * qn) \div qd
        r == ((n - 1) * qn) % qd
    IN IF n = 0 THEN NaN
       ELSE IF r = 0 THEN v[i + 1]
       ELSE RAdd(v[i + 1], RMul(Q(r, qd), RSub(v[i + 2], v[i + 1])))

\* Units as exponents of km, Mpc, s and M_sun.
Unit(km, mpc, sec, msun) == [km |-> km, Mpc |-> mpc, s |-> sec, Msun |-> msun]

UMul(a, b) == Unit(a.km + b.km, a.Mpc + b.Mpc, a.s + b.s, a.Msun + b.Msun)

UDiv(a, b) == Unit(a.km - b.km, a.Mpc - b.Mpc, a.s - b.s, a.Msun - b.Msun)

NoUnit == Unit(0, 0, 0, 0)

\* const.G.to('km^2 Mpc M_sun^-1 s^-2').value = 4.30091e-9
G == [k |-> "num", m |-> 4300, e |-> -12]

G_unit == Unit(2, 1, -2, -1)

\* u.Mpc.to('km') = 3.0857e19, km per Mpc
Mpc_to_km == [k |-> "num", m |-> 3085, e |-> 16]

Mpc_to_km_unit == Unit(1, -1, 0, 0)

\* np.pi
pi == [k |-> "num", m |-> 3141, e |-> -3]

\* velocity_disp**2 in km^2/s^2: the radicand, times (1000 km/s)^2.
VelocityDispSquared(disp) == DMul(RatToDec(disp), DNorm(1, 6))

\* (3 * np.pi * velocity_disp**2 * cluster_radius * u.Mpc.to('km')) / (2 * G)
DynamicalMass(disp, radius) ==
    TrueDivide(
        DMul(DMul(DMul(DMul(DInt(3), pi), VelocityDispSquared(disp)),
                  RatToDec(radius)),
             Mpc_to_km),
        DMul(DInt(2), G))

\* The unit of that value: velocity_disp**2 is in km^2 s^-2, cluster_radius
\* in Mpc (line 113), u.Mpc.to('km') in km/Mpc, G as converted on line 119.
DynamicalMassUnit ==
    UDiv(UMul(UMul(Unit(2, 0, -2, 0), Unit(0, 1, 0, 0)), Mpc_to_km_unit), G_unit)

sun_gmag == 512

\* np.log10 of a float: -inf at 0; exact on the powers of ten that the
\* distances of the model are.
Log10(x) ==
    IF x.k = "nan" THEN NaN
    ELSE IF x.k = "inf" THEN PosInf
    ELSE IF x.m = 0 THEN NegInf
    ELSE Q(x.e + 3, 1)

\* f * x for a finite f > 0, and a - b, with the IEEE specials.
Scale(f, x) == IF x.k = "num" THEN RMul(f, x) ELSE x

Minus(a, b) ==
    IF a.k = "nan" \/ b.k = "nan" THEN NaN
    ELSE IF a.k = "num" /\ b.k = "num" THEN RSub(a, b)
    ELSE IF a.k = "num" THEN (IF b.k = "inf" THEN NegInf ELSE PosInf)
    ELSE IF b.k = "num" THEN a
    ELSE IF a.k = b.k THEN NaN
    ELSE a

\* 10**x in float64: 0 below the smallest subnormal (x < -323), inf above
\* the largest float (x > 308); the exponents of the model are integers.
Power10(x) ==
    IF x.k = "nan" THEN DNaN
    ELSE IF x.k = "inf" THEN DInf
    ELSE IF x.k = "ninf" THEN DZero
    ELSE LET t == x.n \div x.d
         IN IF t < -323 THEN DZero
            ELSE IF t > 308 THEN DInf
            ELSE [k |-> "num", m |-> 1000, e |-> t - 3]

\* cluster_members['gmag'] - 5 * np.log10(lum_dist / 10)
AbsGmag(gmag, dist) ==
    Minus(Q(gmag, 100), Scale(Q(5, 1), Log10(TrueDivide(dist, DInt(10)))))

\* 10**(0.4 * (sun_gmag - cluster_members['abs_gmag']))
Luminosity(frame, dist) ==
    [i \in 1..Len(frame) |->
        Power10(Scale(Q(4, 10), Minus(Q(sun_gmag, 100), AbsGmag(frame[i].gmag, dist))))]

\* Series.sum(): NaN entries are skipped, the sum of nothing is 0.
RECURSIVE SeriesSum(_)
SeriesSum(s) ==
    IF s = <<>> THEN DZero
    ELSE IF Head(s).k = "nan" THEN SeriesSum(Tail(s))
    ELSE DAdd(Head(s), SeriesSum(Tail(s)))

\* (cluster_members['L_g'] * 100).sum()
LuminousMass(lum) == SeriesSum([i \in 1..Len(lum) |-> DMul(lum[i], DInt(100))])

(***************************************************************************)
(* The catalogues the script is run on.                                     *)
(***************************************************************************)
\* The longest run of freely chosen rows.
MaxFree == 2

\* The longest table of the window-filter runs.
MaxFilterRows == 3

\* The largest numerator of a dispersion or a radius of the mass runs.
MaxMassInput == 4

Row(objid, dx, dy, z, gmag) ==
    [objid |-> objid, ra |-> center_ra + dx, dec |-> center_dec + dy,
     specz |-> z, gmag |-> gmag]

\* A cluster core: k galaxies at z = 0.05 at the centre, g = 15.12, each
\* with an objid of its own.
Core(k) == [i \in 1..k |-> Row(100 + i, 0, 0, 5, 1512)]

CoreSizes == {0, 10, 17}

\* The rows chosen freely: two objids, so that duplicates occur, and six
\* galaxies: z = 0, 0.05, 0.10 and 0.30, at 0, 0.5 and 1 degree from the
\* centre, g = 15.12 or 17.62, or g = 1005.12 whose luminosity underflows.
FreeRows ==
    {Row(id, g[1], g[2], g[3], g[4]) :
        id \in {1, 2},
        g \in {<<3000, 4000, 5, 1512>>, <<-6000, 8000, 10, 1762>>,
               <<0, 0, 30, 1512>>, <<3000, 4000, 0, 1512>>,
               <<3000, 4000, 5, 100512>>, <<-6000, 8000, 10, 100512>>}}

SeqsUpTo(S, n) == UNION {[1..m -> S] : m \in 0..n}

\* Names that no statement has assigned yet.
BlankSelection ==
    /\ data = <<>>
    /\ lower_bound = UnsetBound
    /\ upper_bound = UnsetBound

BlankMassInputs ==
    /\ velocity_disp = Unset
    /\ cluster_radius = Unset

BlankRest ==
    /\ mean_z = Unset
    /\ mean_velocity = Unset
    /\ velocity_dispersion = Unset
    /\ cluster_members = <<>>
    /\ angular_sep = <<>>
    /\ z_cosmo = Unset
    /\ kpc_per_arcmin = Unset
    /\ angular_scale = Unset
    /\ proj_sep_mpc = <<>>
    /\ dynamical_mass = DUnset
    /\ dynamical_mass_unit = NoUnit
    /\ lum_dist = DUnset
    /\ L_g = <<>>
    /\ luminous_mass = DUnset
    /\ dynamical_mass_ratio = DUnset

\* Before the first statement: only the file exists.
Blank == BlankSelection /\ BlankMassInputs /\ BlankRest

Init ==
    /\ pc = "load"
    /\ raw \in {Core(k) \o f : k \in CoreSizes, f \in SeqsUpTo(FreeRows, MaxFree)}
    /\ Blank

\* The scenario of ten records: eight redshifts at 0.05 give or take 0.01
\* and two outliers at 0.30.
InitScenario ==
    /\ pc = "load"
    /\ raw \in {[i \in 1..10 |-> Row(i, 0, 0, IF i <= 8 THEN zs[i] ELSE 30, 1512)] :
                  zs \in [1..8 -> {4, 5, 6}]}
    /\ Blank

(***************************************************************************)
(* The script, one action per section.                                      *)
(***************************************************************************)
\* Lines 19-20: read the file, drop the duplicates.
LoadAndClean ==
    /\ pc = "load"
    /\ data' = DropDuplicates(raw)
    /\ pc' = "velocity"
    /\ UNCHANGED <<raw, mean_z, mean_velocity, velocity_dispersion, lower_bound,
                   upper_bound, cluster_members, angular_sep, z_cosmo, kpc_per_arcmin,
                   angular_scale, proj_sep_mpc, cluster_radius, velocity_disp,
                   dynamical_mass, dynamical_mass_unit, lum_dist, L_g,
                   luminous_mass, dynamical_mass_ratio>>

\* Lines 25-35.
CalculateVelocities ==
    /\ pc = "velocity"
    /\ data' = WithVelocity(data)
    /\ mean_z' = SeriesMean(Column(data, "specz"))
    /\ mean_velocity' = RMul(mean_z', Q(c, 1))
    /\ velocity_dispersion' = SeriesStd(Column(data', "velocity"))
    /\ pc' = "window"
    /\ UNCHANGED <<raw, lower_bound, upper_bound, cluster_members, angular_sep,
                   z_cosmo, kpc_per_arcmin, angular_scale, proj_sep_mpc, cluster_radius,
                   velocity_disp, dynamical_mass, dynamical_mass_unit, lum_dist,
                   L_g, luminous_mass, dynamical_mass_ratio>>

\* Lines 41-42.
ComputeWindow ==
    /\ pc = "window"
    /\ lower_bound' = SigmaWindow(mean_velocity, -1, velocity_dispersion)
    /\ upper_bound' = SigmaWindow(mean_velocity, 1, velocity_dispersion)
    /\ pc' = "select"
    /\ UNCHANGED <<raw, data, mean_z, mean_velocity, velocity_dispersion,
                   cluster_members, angular_sep, z_cosmo, kpc_per_arcmin, angular_scale,
                   proj_sep_mpc, cluster_radius, velocity_disp, dynamical_mass,
                   dynamical_mass_unit, lum_dist, L_g, luminous_mass,
                   dynamical_mass_ratio>>

\* Lines 44-49.
SelectMembers ==
    /\ pc = "select"
    /\ cluster_members' = ClusterMembers(data, lower_bound, upper_bound)
    /\ pc' = "angsep"
    /\ UNCHANGED <<raw, data, mean_z, mean_velocity, velocity_dispersion,
                   lower_bound, upper_bound, angular_sep, z_cosmo, kpc_per_arcmin, angular_scale,
                   proj_sep_mpc, cluster_radius, velocity_disp, dynamical_mass,
                   dynamical_mass_unit, lum_dist, L_g, luminous_mass,
                   dynamical_mass_ratio>>

\* Lines 84-89.
AngularSeparation ==
    /\ pc = "angsep"
    /\ angular_sep' = AngularSep(cluster_members)
    /\ pc' = "scale"
    /\ UNCHANGED <<raw, data, mean_z, mean_velocity, velocity_dispersion,
                   lower_bound, upper_bound, cluster_members, z_cosmo, kpc_per_arcmin,
                   angular_scale, proj_sep_mpc, cluster_radius, velocity_disp,
                   dynamical_mass, dynamical_mass_unit, lum_dist, L_g,
                   luminous_mass, dynamical_mass_ratio>>

\* Lines 111-116: the cosmology is asked at mean_z, the mean of line 29.
ProjectedRadius ==
    /\ pc = "scale"
    /\ z_cosmo' = mean_z
    /\ \E kpc \in KpcProperPerArcmin(mean_z) :
          /\ kpc_per_arcmin' = kpc
          /\ angular_scale' = AngularScale(kpc)
    /\ proj_sep_mpc' = ProjSepMpc(angular_sep, angular_scale')
    /\ cluster_radius' = Quantile(proj_sep_mpc', 9, 10)
    /\ pc' = "disp"
    /\ UNCHANGED <<raw, data, mean_z, mean_velocity, velocity_dispersion,
                   lower_bound, upper_bound, cluster_members, angular_sep,
                   velocity_disp, dynamical_mass, dynamical_mass_unit, lum_dist,
                   L_g, luminous_mass, dynamical_mass_ratio>>

\* Line 120.
MemberDispersion ==
    /\ pc = "disp"
    /\ velocity_disp' = SeriesStd(Column(cluster_members, "velocity"))
    /\ pc' = "dynmass"
    /\ UNCHANGED <<raw, data, mean_z, mean_velocity, velocity_dispersion,
                   lower_bound, upper_bound, cluster_members, angular_sep,
                   z_cosmo, kpc_per_arcmin, angular_scale, proj_sep_mpc, cluster_radius,
                   dynamical_mass, dynamical_mass_unit, lum_dist, L_g,
                   luminous_mass, dynamical_mass_ratio>>

\* Lines 119 and 121.
EstimateDynamicalMass ==
    /\ pc = "dynmass"
    /\ dynamical_mass' = DynamicalMass(velocity_disp, cluster_radius)
    /\ dynamical_mass_unit' = DynamicalMassUnit
    /\ pc' = "lummass"
    /\ UNCHANGED <<raw, data, mean_z, mean_velocity, velocity_dispersion,
                   lower_bound, upper_bound, cluster_members, angular_sep,
                   z_cosmo, kpc_per_arcmin, angular_scale, proj_sep_mpc, cluster_radius,
                   velocity_disp, lum_dist, L_g, luminous_mass,
                   dynamical_mass_ratio>>

\* Lines 124-128: the cosmology is asked at mean_z again.
EstimateLuminousMass ==
    /\ pc = "lummass"
    /\ z_cosmo' = mean_z
    /\ \E mpc \in LuminosityDistance(mean_z) :
          lum_dist' = DMul(mpc, DNorm(1, 6))
    /\ L_g' = Luminosity(cluster_members, lum_dist')
    /\ luminous_mass' = LuminousMass(L_g')
    /\ pc' = "ratio"
    /\ UNCHANGED <<raw, data, mean_z, mean_velocity, velocity_dispersion,
                   lower_bound, upper_bound, cluster_members, angular_sep,
                   kpc_per_arcmin, angular_scale, proj_sep_mpc, cluster_radius,
                   velocity_disp, dynamical_mass, dynamical_mass_unit,
                   dynamical_mass_ratio>>

\* Lines 131-136: the ratio and the report.  A statement that raises ends
\* the script before the report.
MassRatio ==
    /\ pc = "ratio"
    /\ dynamical_mass_ratio' = TrueDivide(dynamical_mass, luminous_mass)
    /\ pc' = IF dynamical_mass_ratio'.k = "raise" THEN "error" ELSE "done"
    /\ UNCHANGED <<raw, data, mean_z, mean_velocity, velocity_dispersion,
                   lower_bound, upper_bound, cluster_members, angular_sep,
                   z_cosmo, kpc_per_arcmin, angular_scale, proj_sep_mpc, cluster_radius,
                   velocity_disp, dynamical_mass, dynamical_mass_unit, lum_dist,
                   L_g, luminous_mass>>

Next ==
    \/ LoadAndClean
    \/ CalculateVelocities
    \/ ComputeWindow
    \/ SelectMembers
    \/ AngularSeparation
    \/ ProjectedRadius
    \/ MemberDispersion
    \/ EstimateDynamicalMass
    \/ EstimateLuminousMass
    \/ MassRatio

Spec == Init /\ [][Next]_vars

SpecScenario == InitScenario /\ [][Next]_vars

(***************************************************************************)
(* The window filter on its own: any table, any pair of bounds, the filter  *)
(* applied and applied again to its own result.                             *)
(***************************************************************************)
FilterRows == {Row(0, 0, 0, z, 1512) : z \in {0, 5, 10, 30}}

FilterBounds ==
    {Surd(Q(x, 1), 1, 0, Q(0, 1)) : x \in {0, 15, 30}} \cup {Surd(NaN, 1, 0, NaN)}

InitFilter ==
    /\ pc = "select"
    /\ raw = <<>>
    /\ BlankMassInputs
    /\ BlankRest
    /\ \E f \in SeqsUpTo(FilterRows, MaxFilterRows), lo \in FilterBounds, hi \in FilterBounds :
          /\ data = WithVelocity([i \in 1..Len(f) |-> [f[i] EXCEPT !.objid = i]])
          /\ lower_bound = lo
          /\ upper_bound = hi

Reselect ==
    /\ pc = "angsep"
    /\ cluster_members' = ClusterMembers(cluster_members, lower_bound, upper_bound)
    /\ pc' = "reselected"
    /\ UNCHANGED <<raw, data, mean_z, mean_velocity, velocity_dispersion,
                   lower_bound, upper_bound, angular_sep, z_cosmo, kpc_per_arcmin, angular_scale,
                   proj_sep_mpc, cluster_radius, velocity_disp, dynamical_mass,
                   dynamical_mass_unit, lum_dist, L_g, luminous_mass,
                   dynamical_mass_ratio>>

NextFilter ==
    \/ SelectMembers
    \/ Reselect

SpecFilter == InitFilter /\ [][NextFilter]_vars

(***************************************************************************)
(* The dynamical mass on its own: any dispersion, any radius.               *)
(***************************************************************************)
MassInputs == {Q(n, d) : n \in 0..MaxMassInput, d \in {1, 2}} \cup {NaN}

InitMass ==
    /\ pc = "dynmass"
    /\ raw = <<>>
    /\ BlankSelection
    /\ BlankRest
    /\ velocity_disp \in MassInputs
    /\ cluster_radius \in MassInputs

NextMass == EstimateDynamicalMass

SpecMass == InitMass /\ [][NextMass]_vars

(***************************************************************************)
(* Properties.                                                              *)
(***************************************************************************)
AfterLoad == {"velocity", "window", "select", "angsep", "scale", "disp",
              "dynmass", "lummass", "ratio", "done"}

AfterVelocity == AfterLoad \ {"velocity"}

AfterSelect == {"angsep", "scale", "disp", "dynmass", "lummass", "ratio", "done"}

AfterRadius == {"disp", "dynmass", "lummass", "ratio", "done"}

IsMember(row) == \E j \in 1..Len(cluster_members) : cluster_members[j] = row

\* a is b with rows left out: the rows of a occur in b in the same order.
RECURSIVE IsSubsequence(_, _)
IsSubsequence(a, b) ==
    IF a = <<>> THEN TRUE
    ELSE IF b = <<>> THEN FALSE
    ELSE IF Head(a) = Head(b) THEN IsSubsequence(Tail(a), Tail(b))
    ELSE IsSubsequence(a, Tail(b))

\* The first row of frame that carries objid id.
FirstIndex(frame, id) ==
    CHOOSE i \in 1..Len(frame) :
        /\ frame[i].objid = id
        /\ \A j \in 1..(i - 1) : frame[j].objid # id

Occurrences(frame, id) == Cardinality({i \in 1..Len(frame) : frame[i].objid = id})

\* C1: once the members are selected, a record of the deduplicated table is
\* a member if and only if its velocity spec_z * c lies within 3 sample
\* standard deviations (denominator N-1) of c * mean(spec_z), both ends
\* included.  With S the sum and SS the sum of squares of the N velocities,
\* |v - c*mean(z)| <= 3*sqrt((SS - S^2/N)/(N-1)) is, for N >= 2,
\* (N*v - c*sum(z))^2 * (N-1) <= 9 * N * (N*SS - S^2); for N <= 1 the
\* deviation is NaN and no record is a member.
C1_MemberIffInWindow ==
    pc \in AfterSelect =>
        LET N == Len(data)
            zsum == SumSeq(Column(data, "specz"))
            v == [i \in 1..N |-> data[i].specz * c]
            S == SumSeq(v)
            SS == SumSeq([i \in 1..N |-> v[i] * v[i]])
        IN \A i \in 1..N :
              IsMember(data[i]) <=>
                  /\ N >= 2
                  /\ (N * v[i] - c * zsum) * (N * v[i] - c * zsum) * (N - 1)
                        <= 9 * N * (N * SS - S * S)

\* C1, its case: a finite window, a member inside it and a record beyond
\* its upper end that is no member.
C1_Witness ==
    /\ pc = "angsep"
    /\ lower_bound.k = "num" /\ upper_bound.k = "num"
    /\ \E i \in 1..Len(data) : IsMember(data[i])
    /\ \E i \in 1..Len(data) :
          ~IsMember(data[i]) /\ ~LessEqual(data[i].velocity, upper_bound)

\* C2 as stated: in the scenario of ten records the two outliers at z = 0.3
\* are excluded and eight members remain.
C2_ScenarioEightMembers ==
    pc \in AfterSelect =>
        /\ Len(cluster_members) = 8
        /\ \A j \in 1..Len(cluster_members) : cluster_members[j].specz # 30

\* C2, amended: in the scenario of ten records no record is excluded, the
\* two outliers at z = 0.3 are members and the member count is 10.
C2_ScenarioNoneExcluded ==
    pc \in AfterSelect =>
        /\ Len(cluster_members) = 10
        /\ cluster_members = data

C2_Witness ==
    /\ pc = "angsep"
    /\ Len(data) = 10
    /\ Cardinality({i \in 1..10 : data[i].specz = 30 /\ IsMember(data[i])}) = 2
    /\ Cardinality({i \in 1..10 : data[i].specz \in {4, 5, 6}}) = 8
    /\ \E i \in 1..10 : data[i].specz = 4
    /\ \E i \in 1..10 : data[i].specz = 6

\* C3: after deduplication every objid of the file occurs exactly once in
\* the working table, so an objid that occurs k times costs k-1 rows; the
\* row kept is the first occurrence with its field values; the rows kept
\* are in load order.
C3_DeduplicationKeepsFirst ==
    pc \in AfterLoad =>
        LET ids == {raw[i].objid : i \in 1..Len(raw)}
        IN /\ \A id \in ids : Occurrences(data, id) = 1
           /\ Len(data) = Cardinality(ids)
           /\ Len(raw) - Len(data) = SumSeq([j \in 1..Len(data) |->
                                        Occurrences(raw, data[j].objid) - 1])
           /\ \A j \in 1..Len(data) :
                 LET first == raw[FirstIndex(raw, data[j].objid)]
                 IN /\ data[j].objid = first.objid
                    /\ data[j].ra = first.ra
                    /\ data[j].dec = first.dec
                    /\ data[j].specz = first.specz
                    /\ data[j].gmag = first.gmag
           /\ \A j, l \in 1..Len(data) :
                 j < l => FirstIndex(raw, data[j].objid) < FirstIndex(raw, data[l].objid)

\* C3, its case: an objid occurs twice with different field values, and a
\* row is dropped.
C3_Witness ==
    /\ pc = "velocity"
    /\ Len(data) < Len(raw)
    /\ \E i, j \in 1..Len(raw) :
          /\ i < j
          /\ raw[i].objid = raw[j].objid
          /\ raw[i].specz # raw[j].specz
          /\ raw[i].gmag # raw[j].gmag

\* C4: the dynamical mass is in solar masses (velocity in km/s, the radius
\* and the length factor of G in the same length unit), and for
\* sigma_v = 1000 km/s and R = 1 Mpc it lies between 1e14 and 1e15 M_sun.
C4_MassInSolarMasses ==
    (pc = "lummass" /\ velocity_disp = Q(1, 1) /\ cluster_radius = Q(1, 1)) =>
        /\ dynamical_mass_unit = Unit(0, 0, 0, 1)
        /\ DLe(DNorm(1, 14), dynamical_mass)
        /\ DLe(dynamical_mass, DNorm(1, 15))

\* C5: for every member proj_sep_mpc = angular_sep * Mpc_per_deg, where
\* Mpc_per_deg is the proper distance per arcminute, in Mpc, times 60; the
\* cluster radius is the 0.9 quantile of these values.
C5_ProjectedSeparation ==
    pc \in AfterRadius =>
        LET Mpc_per_arcmin == RDivInt(kpc_per_arcmin, 1000)
            Mpc_per_deg == RMul(Mpc_per_arcmin, Q(60, 1))
        IN /\ Len(proj_sep_mpc) = Len(cluster_members)
           /\ \A i \in 1..Len(cluster_members) :
                 proj_sep_mpc[i] = RMul(angular_sep[i], Mpc_per_deg)
           /\ cluster_radius = Quantile(proj_sep_mpc, 9, 10)

IsSentinel(x) == x.k \in {"nan", "inf", "ninf"}

\* C6 as stated: with at most one record the dispersion is NaN, no statement
\* raises, the report is reached, and the member count, the member
\* dispersion, the radius, the dynamical mass and the mass ratio are all
\* undefined or infinite values.
C6_DegenerateAllSentinels ==
    (pc \in AfterLoad /\ Len(data) <= 1) =>
        /\ pc # "error"
        /\ pc # "done" => ENABLED Next
        /\ pc \in AfterVelocity => velocity_dispersion = NaN
        /\ pc = "done" =>
              /\ IsSentinel(DInt(Len(cluster_members)))
              /\ IsSentinel(velocity_disp)
              /\ IsSentinel(cluster_radius)
              /\ IsSentinel(dynamical_mass)
              /\ IsSentinel(dynamical_mass_ratio)

\* C6, amended: with at most one record the dispersion is NaN, no statement
\* raises and the report is reached; the member count is 0 and the luminous
\* mass is 0 (numbers, not sentinels), and the member dispersion, the
\* radius, the dynamical mass and the mass ratio are NaN.
C6_DegenerateReport ==
    (pc \in AfterLoad /\ Len(data) <= 1) =>
        /\ pc # "error"
        /\ pc # "done" => ENABLED Next
        /\ pc \in AfterVelocity => velocity_dispersion = NaN
        /\ pc \in AfterSelect => cluster_members = <<>>
        /\ pc = "done" =>
              /\ DInt(Len(cluster_members)) = DZero
              /\ velocity_disp = NaN
              /\ cluster_radius = NaN
              /\ dynamical_mass = DNaN
              /\ luminous_mass = DZero
              /\ dynamical_mass_ratio = DNaN

\* C6, its case: a file whose rows all carry one objid, so that one record
\* is left, run to the report.
C6_Witness ==
    /\ pc = "done"
    /\ Len(raw) = 2
    /\ Len(data) = 1
    /\ mean_z.k = "num"

\* C7: no division raises; when the luminous mass is zero the ratio can be
\* computed, is infinite or NaN, and the report is reached.
C7_ZeroLuminousMass ==
    /\ pc # "error"
    /\ (pc = "ratio" /\ DIsZero(luminous_mass)) => ENABLED MassRatio
    /\ (pc = "done" /\ DIsZero(luminous_mass)) =>
          dynamical_mass_ratio.k \in {"inf", "nan"}

\* C7, its case: members whose luminosities are all zero, and a positive
\* dynamical mass: the ratio is infinite.
C7_Witness ==
    /\ pc = "done"
    /\ Len(cluster_members) >= 2
    /\ DIsZero(luminous_mass)
    /\ dynamical_mass.k = "num" /\ dynamical_mass.m > 0
    /\ dynamical_mass_ratio = DInf

\* C8: the members are rows of the deduplicated table, no more than it has,
\* in the order they have in it.
C8_MembersSubsetInOrder ==
    pc \in AfterSelect =>
        /\ Len(cluster_members) <= Len(data)
        /\ \A j \in 1..Len(cluster_members) :
              \E i \in 1..Len(data) : data[i] = cluster_members[j]
        /\ IsSubsequence(cluster_members, data)

\* C8, its case: several members, in a table with a row that is none.
C8_Witness ==
    /\ pc = "scale"
    /\ Len(cluster_members) >= 2
    /\ \E i \in 1..Len(data) : ~IsMember(data[i])
    /\ \E j \in 1..(Len(cluster_members) - 1) :
          cluster_members[j].specz # cluster_members[j + 1].specz

\* C9: filtering the filtered table again with the same bounds changes
\* nothing.
C9_SelectionIdempotent ==
    [][(pc = "angsep" /\ pc' = "reselected") => cluster_members' = cluster_members]_vars

\* C9, its case: the second pass has run on a table that the first pass
\* made shorter and did not empty.
C9_Witness ==
    /\ pc = "reselected"
    /\ Len(cluster_members) >= 1
    /\ Len(cluster_members) < Len(data)

\* C10: the redshift handed to the cosmology, for the angular scale and for
\* the luminosity distance, is the mean redshift of the members (stated
\* where there are members to convert).
C10_CosmologyAtMemberRedshift ==
    (pc \in AfterRadius /\ cluster_members # <<>>) =>
        z_cosmo = SeriesMean(Column(cluster_members, "specz"))

====
